---------------------------- MODULE Spec2Model ----------------------------
(***************************************************************************)
(* Ignore directives of deno_lint (src/ignore_directives.rs) and the       *)
(* NoVar rule (src/rules/no_var.rs).                                       *)
(*                                                                         *)
(* Strings are sequences of one-character strings, so that trimming,       *)
(* tokenising and the regex replacement are computed character by          *)
(* character as the Rust code computes them.  Option<T> is a sequence of   *)
(* length at most one: None is <<>>, Some(x) is <<x>>.                     *)
(***************************************************************************)
EXTENDS Integers, Sequences, FiniteSets, TLC

VARIABLES
  pc,               \* phase of the run of the specification at hand
  comment,          \* the Comment handed to parse_ignore_comment
  keyword,          \* the directive keyword handed to parse_ignore_comment
  directive,        \* Option<IgnoreDirective>: the directive under study
  ret,              \* what the last method call on `directive` returned
  unit,             \* the parsed unit: its comments, statements, line index
  file_directive,   \* Context: Option<FileIgnoreDirective>
  line_directives,  \* Context: HashMap<usize, LineIgnoreDirective>
  diagnostics,      \* Context: Vec<LintDiagnostic> (the kept diagnostics)
  reported,         \* per rule code, the spans it called add_diagnostic with
  unused,           \* the synthetic unused-directive diagnostics
  program,          \* ProgramRef handed to NoVar::lint_program
  todo              \* the visitor's pending nodes, in visiting order

vars == <<pc, comment, keyword, directive, ret, unit, file_directive,
          line_directives, diagnostics, reported, unused, program, todo>>

parseVars == <<comment, keyword, directive, ret>>
tableVars == <<unit, file_directive, line_directives>>
runVars   == <<diagnostics, reported, unused>>
visitVars == <<program, todo>>

-----------------------------------------------------------------------------
(* Option<T> *)
None == <<>>
Some(x) == <<x>>

-----------------------------------------------------------------------------
(* Bounds of the model *)
MaxLen == 6        \* longest comment text drawn for parse_ignore_comment
MaxItems == 3      \* most comments and statements of a unit whose table is built
MaxLine == 2       \* statements (one per line) of a unit that rules run on
MaxCalls == 3      \* most add_diagnostic calls of one run
MaxStmts == 2      \* most top-level statements of a program NoVar visits
MaxDepth == 1      \* deepest nesting of statements below a top-level one
MaxKids == 1       \* most statements nested directly in one statement

-----------------------------------------------------------------------------
(* Characters and strings *)

\* the alphabet comment texts are drawn from: a keyword letter, two code
\* letters, a whitespace character and the comma
Chars == {"k", "a", "b", " ", ","}

\* char::is_whitespace, also the class \s of the regex crate
is_whitespace(ch) == ch = " "

RECURSIVE trim_start(_)
trim_start(s) ==
  IF s # <<>> /\ is_whitespace(Head(s)) THEN trim_start(Tail(s)) ELSE s

RECURSIVE trim_end(_)
trim_end(s) ==
  IF s # <<>> /\ is_whitespace(s[Len(s)])
  THEN trim_end(SubSeq(s, 1, Len(s) - 1))
  ELSE s

\* str::trim
trim(s) == trim_end(trim_start(s))

RECURSIVE take_word(_)
take_word(s) ==
  IF s = <<>> \/ is_whitespace(Head(s))
  THEN <<>>
  ELSE <<Head(s)>> \o take_word(Tail(s))

\* str::split_whitespace().next(): the first maximal run of non-whitespace
split_whitespace_next(s) ==
  LET t == trim_start(s) IN IF t = <<>> THEN None ELSE Some(take_word(t))

\* str::strip_prefix
strip_prefix(s, p) ==
  IF Len(p) <= Len(s) /\ SubSeq(s, 1, Len(p)) = p
  THEN Some(SubSeq(s, Len(p) + 1, Len(s)))
  ELSE None

\* IGNORE_COMMENT_CODE_RE.replace_all(text, ","): leftmost non-overlapping
\* matches of  ,\s* | \s  (the first alternative is tried first and \s* is
\* greedy), each replaced by one comma
RECURSIVE replace_all(_)
replace_all(s) ==
  IF s = <<>> THEN <<>>
  ELSE IF Head(s) = "," THEN <<",">> \o replace_all(trim_start(Tail(s)))
  ELSE IF is_whitespace(Head(s)) THEN <<",">> \o replace_all(Tail(s))
  ELSE <<Head(s)>> \o replace_all(Tail(s))

\* str::split(','): the pieces between commas, empty pieces included
RECURSIVE split(_, _)
split(s, sep) ==
  IF \E i \in 1..Len(s) : s[i] = sep
  THEN LET i == CHOOSE j \in 1..Len(s) :
                  s[j] = sep /\ \A h \in 1..(j - 1) : s[h] # sep
       IN <<SubSeq(s, 1, i - 1)>> \o split(SubSeq(s, i + 1, Len(s)), sep)
  ELSE <<s>>

\* CodeStatus::default()
CodeStatusDefault == [used |-> FALSE]

\* a plausible slip: empty pieces are not filtered out
collect_codes_keep_empty(pieces) ==
  LET keys == {trim(pieces[i]) : i \in 1..Len(pieces)}
  IN [c \in keys |-> CodeStatusDefault]

\* .filter_map(|code| if code.is_empty() { None } else { Some((code.trim(),
\* CodeStatus::default())) }).collect() into a HashMap
collect_codes(pieces) ==
  LET keys == {trim(pieces[i]) : i \in {j \in 1..Len(pieces) : pieces[j] # <<>>}}
  IN [c \in keys |-> CodeStatusDefault]

\* a plausible slip: starts_with instead of equality of the first token
prefix_starts_with(prefix, kw) ==
  Len(kw) <= Len(prefix) /\ SubSeq(prefix, 1, Len(kw)) = kw

\* prefix == ignore_diagnostic_directive
prefix_matches(prefix, kw) == prefix = kw

parse_ignore_comment(kw, c) ==
  IF c.kind # "Line" THEN None
  ELSE LET comment_text == trim(c.text)
           prefix == split_whitespace_next(comment_text)
       IN IF prefix # None /\ prefix_matches(prefix[1], kw)
          THEN LET rest == strip_prefix(comment_text, kw)[1]
                   replaced == replace_all(rest)
               IN Some([span |-> c.span,
                        codes |-> collect_codes(split(replaced, ","))])
          ELSE None

-----------------------------------------------------------------------------
(* IgnoreDirective<T> *)

span(d) == d.span

\* a plausible slip: the emptiness test is inverted
ignore_all_inverted(d) == DOMAIN d.codes # {}

ignore_all(d) == DOMAIN d.codes = {}

codes(d) == d.codes

has_code(d, code) == code \in DOMAIN d.codes

\* a plausible slip: the code map is rebuilt with only this code used, so the
\* flags set by earlier calls are lost
check_used_lost_update(d, code) ==
  IF code \in DOMAIN d.codes
  THEN [dir |-> [d EXCEPT !.codes = [c \in DOMAIN d.codes |-> [used |-> c = code]]],
        ret |-> TRUE]
  ELSE [dir |-> d, ret |-> FALSE]

\* a plausible slip: the status is looked up but never marked
check_used_no_mark(d, code) ==
  [dir |-> d, ret |-> code \in DOMAIN d.codes]

\* a plausible slip: every code of the directive is marked, not only the
\* one that matched
check_used_marks_all(d, code) ==
  IF code \in DOMAIN d.codes
  THEN [dir |-> [d EXCEPT !.codes = [c \in DOMAIN d.codes |-> [used |-> TRUE]]],
        ret |-> TRUE]
  ELSE [dir |-> d, ret |-> FALSE]

\* check_used(&mut self, code) -> bool: the directive afterwards, and the
\* returned value
check_used(d, code) ==
  IF code \in DOMAIN d.codes
  THEN [dir |-> [d EXCEPT !.codes[code].used = TRUE], ret |-> TRUE]
  ELSE [dir |-> d, ret |-> FALSE]

-----------------------------------------------------------------------------
(* The parsed unit (deno_ast's Program, an external collaborator).         *)
(* unit.items lists its comments and statements in source order; an item   *)
(* is [kind, text, span, line] with kind "Line" or "Block" for a comment    *)
(* and "Stmt" for a statement; line is what the source file's line index    *)
(* gives for the item's span.lo.                                            *)

\* program.source_file().unwrap().line_index(pos)
line_index(u, pos) ==
  LET i == CHOOSE j \in 1..Len(u.items) : u.items[j].span.lo = pos
  IN u.items[i].line

IsComment(item) == item.kind # "Stmt"

\* program.comments().unwrap().all_comments()
all_comments(u) == SelectSeq(u.items, IsComment)

\* program.comments().unwrap().leading_comments(program.span().lo()): the
\* comments in front of the unit's first statement
leading_comments(u) ==
  LET stmts == {i \in 1..Len(u.items) : ~IsComment(u.items[i])}
      n == IF stmts = {} THEN Len(u.items)
           ELSE (CHOOSE i \in stmts : \A j \in stmts : i <= j) - 1
  IN SubSeq(u.items, 1, n)

\* HashMap::insert
Insert(map, key, value) ==
  [k \in DOMAIN map \cup {key} |-> IF k = key THEN value ELSE map[k]]

\* a plausible slip: a second directive on a line adds its codes to the
\* first one's
InsertMerging(map, key, value) ==
  [k \in DOMAIN map \cup {key} |->
     IF k # key THEN map[k]
     ELSE IF key \in DOMAIN map
          THEN [map[key] EXCEPT !.codes =
                  [c \in DOMAIN map[key].codes \cup DOMAIN value.codes |->
                     CodeStatusDefault]]
          ELSE value]

\* .collect() of (line, directive) pairs into a HashMap: a later pair with
\* the same key replaces the earlier one
collect_entry(map, key, value) == Insert(map, key, value)

RECURSIVE filter_map_collect(_, _, _, _)
filter_map_collect(kw, u, cs, map) ==
  IF cs = <<>> THEN map
  ELSE LET r == parse_ignore_comment(kw, Head(cs))
       IN filter_map_collect(kw, u, Tail(cs),
            IF r = None THEN map
            ELSE collect_entry(map, line_index(u, r[1].span.lo), r[1]))

parse_line_ignore_directives(kw, u) ==
  filter_map_collect(kw, u, all_comments(u), <<>>)

RECURSIVE find_map(_, _)
find_map(kw, cs) ==
  IF cs = <<>> THEN None
  ELSE LET r == parse_ignore_comment(kw, Head(cs))
       IN IF r # None THEN r ELSE find_map(kw, Tail(cs))

\* a plausible slip: every comment of the unit is a candidate, not only the
\* leading ones
parse_file_all_comments(kw, u) == find_map(kw, all_comments(u))

parse_file_ignore_directives(kw, u) == find_map(kw, leading_comments(u))

-----------------------------------------------------------------------------
(* Context (the diagnostic sink) and the unused-directive derivation.      *)
(* A context is [unit, file_directive, line_directives, diagnostics].      *)

LintDiagnostic(sp, code, message) ==
  [span |-> sp, code |-> code, message |-> message]

\* Context::add_diagnostic(span, code, message): the context afterwards
add_diagnostic(ctx, sp, code, message) ==
  LET line == line_index(ctx.unit, sp.lo)
      fd == ctx.file_directive
      ld == ctx.line_directives
      keep == [ctx EXCEPT !.diagnostics =
                 Append(@, LintDiagnostic(sp, code, message))]
  IN IF fd # None /\ (ignore_all(fd[1]) \/ has_code(fd[1], code))
     THEN [ctx EXCEPT !.file_directive = Some(check_used(fd[1], code).dir)]
     ELSE IF line \in DOMAIN ld
          THEN IF ignore_all(ld[line]) THEN ctx
               ELSE LET r == check_used(ld[line], code)
                    IN IF r.ret
                       THEN [ctx EXCEPT !.line_directives[line] = r.dir]
                       ELSE keep
          ELSE keep

\* the code of the rule that reports unused directives
BanUnusedIgnore == <<"ban-unused-ignore">>

\* the elements of a finite set, as a sequence in some order
RECURSIVE SetToSeq(_)
SetToSeq(S) ==
  IF S = {} THEN <<>>
  ELSE LET x == CHOOSE y \in S : TRUE IN <<x>> \o SetToSeq(S \ {x})

\* the synthetic diagnostics of one directive: one per code still unused,
\* none for an ignore-all directive
unused_codes(d) ==
  IF ignore_all(d) THEN <<>>
  ELSE LET cs == SetToSeq({c \in DOMAIN codes(d) : ~codes(d)[c].used})
       IN [i \in 1..Len(cs) |-> LintDiagnostic(span(d), BanUnusedIgnore, cs[i])]

RECURSIVE unused_of_lines(_, _)
unused_of_lines(ld, ks) ==
  IF ks = <<>> THEN <<>>
  ELSE unused_codes(ld[Head(ks)]) \o unused_of_lines(ld, Tail(ks))

\* the unused-directive derivation, run once after all rules: the file
\* directive's unused codes, then each line directive's (the order in which
\* the maps are walked is unspecified; no claim depends on it)
ban_unused_ignore(ctx) ==
  (IF ctx.file_directive = None THEN <<>>
   ELSE unused_codes(ctx.file_directive[1]))
  \o unused_of_lines(ctx.line_directives, SetToSeq(DOMAIN ctx.line_directives))

-----------------------------------------------------------------------------
(* Values of the variables a specification does not use *)
Idle == <<>>

ParseIdle == comment = Idle /\ keyword = Idle /\ directive = Idle /\ ret = Idle
TableIdle == unit = Idle /\ file_directive = Idle /\ line_directives = Idle
RunIdle   == diagnostics = Idle /\ reported = Idle /\ unused = Idle
VisitIdle == program = Idle /\ todo = Idle

-----------------------------------------------------------------------------
(* SpecParse: parse_ignore_comment applied to one comment *)

Texts == UNION {[1..n -> Chars] : n \in 0..MaxLen}

LineKeyword == <<"k">>
FileKeyword == <<"k", "f">>

SpanOf(text) == [lo |-> 0, hi |-> Len(text)]

ParseInit ==
  /\ pc = "comment"
  /\ keyword = LineKeyword
  /\ \E kind \in {"Line", "Block"}, text \in Texts :
       comment = [kind |-> kind, text |-> text, span |-> SpanOf(text)]
  /\ directive = None
  /\ ret = Idle
  /\ TableIdle /\ RunIdle /\ VisitIdle

ParseComment ==
  /\ pc = "comment"
  /\ pc' = "parsed"
  /\ directive' = parse_ignore_comment(keyword, comment)
  /\ UNCHANGED <<comment, keyword, ret, tableVars, runVars, visitVars>>

ParseNext == ParseComment

SpecParse == ParseInit /\ [][ParseNext]_vars

-----------------------------------------------------------------------------
(* Claims about parse_ignore_comment, checked under SpecParse *)

\* the text is whitespace, then the keyword, then its end or whitespace:
\* Lead(text, kw) is the set of lengths of such a leading whitespace run
Lead(text, kw) ==
  {i \in 0..Len(text) :
     /\ \A j \in 1..i : text[j] = " "
     /\ i + Len(kw) <= Len(text)
     /\ \A j \in 1..Len(kw) : text[i + j] = kw[j]
     /\ (i + Len(kw) = Len(text) \/ text[i + Len(kw) + 1] = " ")}

\* C4: parse_ignore_comment returns a directive if and only if the comment
\* is a Line comment and the first whitespace-delimited token of its text is
\* exactly the keyword (so a block comment, an empty comment, "ka" and "ak"
\* for the keyword "k" all give None).
C4_DirectiveIffFirstTokenIsKeyword ==
  pc = "parsed" =>
    ((directive # None) <=>
       (comment.kind = "Line" /\ Lead(comment.text, keyword) # {}))

\* C4 witness: the keyword immediately followed by a code letter was parsed
\* and gave None
C4_Witness ==
  /\ pc = "parsed"
  /\ comment.kind = "Line"
  /\ comment.text = <<" ", "k", "a", " ", "b">>
  /\ directive = None

IsSep(ch) == ch = " " \/ ch = ","

\* the text after the keyword
Remainder(text, kw) ==
  LET i == CHOOSE h \in Lead(text, kw) : TRUE
  IN SubSeq(text, i + Len(kw) + 1, Len(text))

\* the maximal runs of non-separator characters of s, as <<first, last>>
TokenSpans(s) ==
  {p \in (1..Len(s)) \X (1..Len(s)) :
     /\ p[1] <= p[2]
     /\ \A h \in p[1]..p[2] : ~IsSep(s[h])
     /\ (p[1] = 1 \/ IsSep(s[p[1] - 1]))
     /\ (p[2] = Len(s) \/ IsSep(s[p[2] + 1]))}

Tokens(s) == {SubSeq(s, p[1], p[2]) : p \in TokenSpans(s)}

\* the tokens of s in order, each preceded by a separator: a space before
\* the first (it ends the keyword), sep before the others
RECURSIVE Respell(_, _, _)
Respell(s, sep, first) ==
  IF TokenSpans(s) = {} THEN <<>>
  ELSE LET p == CHOOSE q \in TokenSpans(s) :
                  \A r \in TokenSpans(s) : q[1] <= r[1]
       IN (IF first THEN <<" ">> ELSE sep) \o SubSeq(s, p[1], p[2])
            \o Respell(SubSeq(s, p[2] + 1, Len(s)), sep, FALSE)

SepStyles == {<<" ">>, <<",">>, <<",", " ">>}

\* C5: the code keys of a parsed directive are exactly the non-empty tokens
\* of the text after the keyword, split at runs of whitespace and at commas
\* optionally followed by whitespace; every status starts unused; no key is
\* empty or holds whitespace or a comma; no token gives the empty mapping
\* (ignore_all); and the same codes spelled with spaces, commas or commas
\* and spaces give the same key set.
C5_CodesAreTheTokens ==
  (pc = "parsed" /\ directive # None) =>
    LET d == directive[1]
        rem == Remainder(comment.text, keyword)
    IN /\ DOMAIN d.codes = Tokens(rem)
       /\ \A c \in DOMAIN d.codes :
            /\ d.codes[c].used = FALSE
            /\ c # <<>>
            /\ \A h \in 1..Len(c) : ~IsSep(c[h])
       /\ (Tokens(rem) = {} <=> ignore_all(d))
       /\ \A sep \in SepStyles :
            LET again == parse_ignore_comment(keyword,
                           [kind |-> "Line",
                            text |-> keyword \o Respell(rem, sep, TRUE),
                            span |-> comment.span])
            IN again # None /\ DOMAIN again[1].codes = DOMAIN d.codes

\* C5 witness: a comma-separated list of two codes was parsed
C5_Witness ==
  /\ pc = "parsed"
  /\ comment.text = <<"k", " ", "a", ",", "b">>
  /\ directive # None
  /\ DOMAIN directive[1].codes = {<<"a">>, <<"b">>}

-----------------------------------------------------------------------------
(* SpecDirective: the methods of one parsed IgnoreDirective, called in any  *)
(* order                                                                    *)

DirectiveTexts ==
  { <<" ", "k">>,
    <<" ", "k", " ", "a">>,
    <<" ", "k", " ", "b">>,
    <<" ", "k", " ", "a", ",", "b">>,
    <<" ", "k", " ", "c", " ", " ", "a">>,
    <<" ", "k", " ", "a", " ", "b", ",", " ", "c">> }

\* the codes the methods are called with
CodeArgs == {<<"a">>, <<"b">>, <<"c">>}

DirectiveInit ==
  /\ pc = "directive"
  /\ keyword = LineKeyword
  /\ \E text \in DirectiveTexts :
       comment = [kind |-> "Line", text |-> text, span |-> SpanOf(text)]
  /\ directive = parse_ignore_comment(keyword, comment)
  /\ ret = [op |-> "new", code |-> <<>>, value |-> FALSE]
  /\ TableIdle /\ RunIdle /\ VisitIdle

CheckUsed(code) ==
  /\ pc = "directive"
  /\ LET r == check_used(directive[1], code)
     IN /\ directive' = Some(r.dir)
        /\ ret' = [op |-> "check_used", code |-> code, value |-> r.ret]
  /\ UNCHANGED <<pc, comment, keyword, tableVars, runVars, visitVars>>

HasCode(code) ==
  /\ pc = "directive"
  /\ ret' = [op |-> "has_code", code |-> code,
             value |-> has_code(directive[1], code)]
  /\ UNCHANGED <<pc, comment, keyword, directive, tableVars, runVars, visitVars>>

IgnoreAll ==
  /\ pc = "directive"
  /\ ret' = [op |-> "ignore_all", code |-> <<>>,
             value |-> ignore_all(directive[1])]
  /\ UNCHANGED <<pc, comment, keyword, directive, tableVars, runVars, visitVars>>

DirectiveNext ==
  \/ \E code \in CodeArgs : CheckUsed(code)
  \/ \E code \in CodeArgs : HasCode(code)
  \/ IgnoreAll

SpecDirective == DirectiveInit /\ [][DirectiveNext]_vars

\* C10: over any sequence of calls the span and the key set of the codes
\* stay those of the parsed directive and no used flag goes back to false;
\* check_used(c) returns true exactly when c is a key, then sets c's flag
\* and no other, and otherwise changes nothing; has_code and ignore_all
\* change nothing.
C10_OnlyUsedFlagsChange ==
  [][pc = "directive" =>
      LET d == directive[1]
          e == directive'[1]
          parsed == parse_ignore_comment(keyword, comment)[1]
      IN /\ e.span = parsed.span
         /\ DOMAIN e.codes = DOMAIN parsed.codes
         /\ \A c \in DOMAIN d.codes : d.codes[c].used => e.codes[c].used
         /\ ret'.op = "check_used" =>
              /\ ret'.value <=> (ret'.code \in DOMAIN d.codes)
              /\ ret'.value =>
                   /\ e.codes[ret'.code].used
                   /\ \A c \in DOMAIN d.codes \ {ret'.code} :
                        e.codes[c].used = d.codes[c].used
              /\ ~ret'.value => e = d
              /\ ignore_all(d) => ~ret'.value
         /\ ret'.op \in {"has_code", "ignore_all"} => e = d
  ]_vars

\* C10 witness: check_used("b") returned true on a directive whose code
\* "a" was already used and whose code "c" is still unused
C10_Witness ==
  /\ pc = "directive"
  /\ ret = [op |-> "check_used", code |-> <<"b">>, value |-> TRUE]
  /\ DOMAIN directive[1].codes = {<<"a">>, <<"b">>, <<"c">>}
  /\ directive[1].codes[<<"a">>].used
  /\ directive[1].codes[<<"b">>].used
  /\ ~directive[1].codes[<<"c">>].used

-----------------------------------------------------------------------------
(* SpecTable: the two directive tables of a unit are built *)

\* what an item of a unit can be
ItemShapes ==
  {[kind |-> "Stmt", text |-> <<>>]}
  \cup {[kind |-> "Line", text |-> t] :
          t \in { <<" ", "k", "f", " ", "a">>, <<" ", "k", "f", " ", "b">>,
                  <<" ", "k", " ", "a">>, <<" ", "k", " ", "b">> }}
  \cup {[kind |-> "Block", text |-> t] :
          t \in { <<" ", "k", "f", " ", "a">>, <<" ", "k", " ", "a">> }}

\* Item i of a unit starts at offset 10 * i.  The first item is on line 0 and
\* each further item is on the line of the one before it or on the next one
\* (a line comment ends at a line terminator, yet two of them share a line of
\* the line index when that terminator is one the index does not count).
MkUnit(shapes, newline) ==
  [items |->
     [i \in 1..Len(shapes) |->
        [kind |-> shapes[i].kind,
         text |-> shapes[i].text,
         span |-> [lo |-> 10 * i, hi |-> 10 * i + Len(shapes[i].text) + 2],
         line |-> Cardinality({j \in 2..i : newline[j]})]]]

NotParsed == <<"not parsed">>

TableInit ==
  /\ pc = "new"
  /\ \E n \in 0..MaxItems :
       \E shapes \in [1..n -> ItemShapes], newline \in [2..n -> BOOLEAN] :
         unit = MkUnit(shapes, newline)
  /\ file_directive = NotParsed
  /\ line_directives = NotParsed
  /\ ParseIdle /\ RunIdle /\ VisitIdle

ParseFileDirective ==
  /\ pc \in {"new", "lines"}
  /\ pc' = IF pc = "new" THEN "file" ELSE "table"
  /\ file_directive' = parse_file_ignore_directives(FileKeyword, unit)
  /\ UNCHANGED <<unit, line_directives, parseVars, runVars, visitVars>>

ParseLineDirectives ==
  /\ pc \in {"new", "file"}
  /\ pc' = IF pc = "new" THEN "lines" ELSE "table"
  /\ line_directives' = parse_line_ignore_directives(LineKeyword, unit)
  /\ UNCHANGED <<unit, file_directive, parseVars, runVars, visitVars>>

TableNext == ParseFileDirective \/ ParseLineDirectives

SpecTable == TableInit /\ [][TableNext]_vars

\* the items of the unit that are comments parsing as a directive with kw
Parsing(u, kw) ==
  {i \in 1..Len(u.items) :
     u.items[i].kind = "Line" /\ Lead(u.items[i].text, kw) # {}}

\* the comments in front of every statement of the unit
Leading(u) ==
  {i \in 1..Len(u.items) : \A j \in 1..i : u.items[j].kind # "Stmt"}

\* d is item i of the unit read as a directive with kw
IsDirectiveOf(d, u, i, kw) ==
  /\ d.span = u.items[i].span
  /\ DOMAIN d.codes = Tokens(Remainder(u.items[i].text, kw))
  /\ \A c \in DOMAIN d.codes : ~d.codes[c].used

\* C6: the file directive is the first leading comment that parses with the
\* file keyword, with that comment's codes only, and None when no leading
\* comment parses.
C6_FirstLeadingFileDirective ==
  pc \in {"file", "table"} =>
    LET cands == Leading(unit) \cap Parsing(unit, FileKeyword)
    IN IF cands = {} THEN file_directive = None
       ELSE /\ file_directive # None
            /\ IsDirectiveOf(file_directive[1], unit,
                 CHOOSE i \in cands : \A j \in cands : i <= j, FileKeyword)

\* C6 witness: two file directives lead the unit, a statement follows, and the
\* result holds the first one's code and not the second's
C6_Witness ==
  /\ pc = "table"
  /\ Len(unit.items) = 3
  /\ unit.items[1].text = <<" ", "k", "f", " ", "a">>
  /\ unit.items[1].kind = "Line"
  /\ unit.items[2].text = <<" ", "k", "f", " ", "b">>
  /\ unit.items[2].kind = "Line"
  /\ unit.items[3].kind = "Stmt"
  /\ file_directive # None
  /\ DOMAIN file_directive[1].codes = {<<"a">>}

\* C7: the line table has exactly one entry per line that carries a comment
\* parsing with the line keyword, wherever the comment stands in the unit,
\* keyed by the line of the comment's start; the entry is the last such
\* comment of the line, with its span and its codes only.
C7_OneDirectivePerLineLastWins ==
  pc \in {"lines", "table"} =>
    LET cands == Parsing(unit, LineKeyword)
    IN /\ DOMAIN line_directives = {unit.items[i].line : i \in cands}
       /\ \A l \in DOMAIN line_directives :
            LET on == {i \in cands : unit.items[i].line = l}
            IN IsDirectiveOf(line_directives[l], unit,
                 CHOOSE i \in on : \A j \in on : j <= i, LineKeyword)

\* C7 witness: a statement is followed on its line by two line directives;
\* the table holds one entry, the second comment's
C7_Witness ==
  /\ pc = "table"
  /\ Len(unit.items) = 3
  /\ unit.items[1].kind = "Stmt"
  /\ unit.items[2].kind = "Line" /\ unit.items[2].text = <<" ", "k", " ", "a">>
  /\ unit.items[3].kind = "Line" /\ unit.items[3].text = <<" ", "k", " ", "b">>
  /\ unit.items[2].line = 0 /\ unit.items[3].line = 0
  /\ DOMAIN line_directives = {0}
  /\ line_directives[0].span = unit.items[3].span
  /\ DOMAIN line_directives[0].codes = {<<"b">>}

-----------------------------------------------------------------------------
(* Spec: one analysis run.  The context is built for a unit, the rules     *)
(* report through add_diagnostic in any interleaving of their calls (each  *)
(* call takes the context by &mut, so calls never overlap), and the unused *)
(* directives are derived once the rules are done.                          *)

\* the codes of the rules that run
RuleCodes == {<<"a">>, <<"b">>}

MessageOf(code) == <<"message of">> \o code

\* the file directive comment of a unit, if it has one
RunFileTexts ==
  {None, Some(<<" ", "k", "f">>), Some(<<" ", "k", "f", " ", "a">>),
   Some(<<" ", "k", "f", " ", "b">>)}

\* the line directive comment that trails a statement, if one does
RunLineTexts ==
  {None, Some(<<" ", "k">>), Some(<<" ", "k", " ", "a">>),
   Some(<<" ", "k", " ", "a", ",", "b">>)}

RECURSIVE StmtLines(_, _)
StmtLines(lts, l) ==
  IF l > Len(lts) THEN <<>>
  ELSE <<[kind |-> "Stmt", text |-> <<>>]>>
       \o (IF lts[l] = None THEN <<>>
           ELSE <<[kind |-> "Line", text |-> lts[l][1]]>>)
       \o StmtLines(lts, l + 1)

\* a unit with an optional leading file directive on a line of its own and
\* then MaxLine lines, each a statement and an optional trailing line comment
MkRunUnit(ft, lts) ==
  LET shapes == (IF ft = None THEN <<>>
                 ELSE <<[kind |-> "Line", text |-> ft[1]]>>)
                \o StmtLines(lts, 1)
  IN MkUnit(shapes, [j \in 2..Len(shapes) |-> shapes[j].kind = "Stmt"])

\* the spans a rule can report at: the statements of the unit
StmtSpans(u) ==
  {u.items[i].span : i \in {j \in 1..Len(u.items) : u.items[j].kind = "Stmt"}}

\* Context::new: the two tables parsed from the unit, no diagnostic yet
NewContext(u) ==
  [unit |-> u,
   file_directive |-> parse_file_ignore_directives(FileKeyword, u),
   line_directives |-> parse_line_ignore_directives(LineKeyword, u),
   diagnostics |-> <<>>]

Ctx ==
  [unit |-> unit, file_directive |-> file_directive,
   line_directives |-> line_directives, diagnostics |-> diagnostics]

SetCtx(ctx) ==
  /\ file_directive' = ctx.file_directive
  /\ line_directives' = ctx.line_directives
  /\ diagnostics' = ctx.diagnostics

TotalCalls == Len(reported[<<"a">>]) + Len(reported[<<"b">>])

Init ==
  /\ pc = "rules"
  /\ \E ft \in RunFileTexts, lts \in [1..MaxLine -> RunLineTexts] :
       unit = MkRunUnit(ft, lts)
  /\ file_directive = NewContext(unit).file_directive
  /\ line_directives = NewContext(unit).line_directives
  /\ diagnostics = NewContext(unit).diagnostics
  /\ reported = [r \in RuleCodes |-> <<>>]
  /\ unused = <<>>
  /\ ParseIdle /\ VisitIdle

\* the rule with code r reports a diagnostic at span sp
AddDiagnostic(r, sp) ==
  /\ pc = "rules"
  /\ TotalCalls < MaxCalls
  /\ SetCtx(add_diagnostic(Ctx, sp, r, MessageOf(r)))
  /\ reported' = [reported EXCEPT ![r] = Append(@, sp)]
  /\ UNCHANGED <<pc, unit, unused, parseVars, visitVars>>

\* all rules are done: the unused directives are derived
ReportUnused ==
  /\ pc = "rules"
  /\ pc' = "done"
  /\ unused' = ban_unused_ignore(Ctx)
  /\ UNCHANGED <<unit, file_directive, line_directives, diagnostics, reported,
                 parseVars, visitVars>>

Next ==
  \/ \E r \in RuleCodes : \E sp \in StmtSpans(unit) : AddDiagnostic(r, sp)
  \/ ReportUnused

Spec == Init /\ [][Next]_vars

-----------------------------------------------------------------------------
(* Claims about a run, checked under Spec *)

\* the line of the statement at span sp
LineOf(sp) ==
  (CHOOSE it \in {unit.items[i] : i \in 1..Len(unit.items)} : it.span = sp).line

\* this step is the call add_diagnostic(sp, r, ..)
Calls(r, sp) == pc = "rules" /\ reported'[r] = Append(reported[r], sp)

\* the file directive takes every diagnostic of code c
FileTakes(c) ==
  /\ file_directive # None
  /\ (DOMAIN file_directive[1].codes = {} \/ c \in DOMAIN file_directive[1].codes)

\* C1: when a file directive exists and is ignore-all or lists the code of
\* a reported diagnostic, the diagnostic is dropped, the file directive's
\* status of that code (if it has one) is marked used, and the line
\* directives are left exactly as they were, whatever directive stands on
\* the diagnostic's line.
C1_FileDirectiveHasPriority ==
  [][\A r \in RuleCodes : \A sp \in StmtSpans(unit) :
       (Calls(r, sp) /\ FileTakes(r)) =>
         /\ diagnostics' = diagnostics
         /\ r \in DOMAIN file_directive[1].codes =>
              file_directive'[1].codes[r].used
         /\ line_directives' = line_directives
  ]_vars

\* C1 witness: the file directive lists "b", the statement's line carries a
\* line directive that lists "a" only, a diagnostic of code "b" was reported
\* there, and it was dropped with no flag of the line directive changed
C1_Witness ==
  /\ pc = "rules"
  /\ file_directive # None
  /\ DOMAIN file_directive[1].codes = {<<"b">>}
  /\ file_directive[1].codes[<<"b">>].used
  /\ Len(reported[<<"b">>]) = 1 /\ reported[<<"a">>] = <<>>
  /\ LineOf(reported[<<"b">>][1]) \in DOMAIN line_directives
  /\ LET d == line_directives[LineOf(reported[<<"b">>][1])]
     IN DOMAIN d.codes = {<<"a">>} /\ ~d.codes[<<"a">>].used
  /\ diagnostics = <<>>

\* C2 as stated: whenever the line of a reported diagnostic carries a line
\* directive listing its code, the diagnostic is dropped and that code's
\* flag in the line directive is true afterwards; when the line directive
\* is ignore-all the diagnostic is dropped.
C2_AsStated ==
  [][\A r \in RuleCodes : \A sp \in StmtSpans(unit) :
       (Calls(r, sp) /\ LineOf(sp) \in DOMAIN line_directives) =>
         LET l == LineOf(sp) IN
         /\ r \in DOMAIN line_directives[l].codes =>
              /\ diagnostics' = diagnostics
              /\ line_directives'[l].codes[r].used
         /\ DOMAIN line_directives[l].codes = {} => diagnostics' = diagnostics
  ]_vars

\* C2 amended: the diagnostic is dropped in both cases, and the code's flag
\* in the line directive is true afterwards provided no file directive that
\* is ignore-all or lists the code takes the diagnostic first.
C2_LineDirectiveSuppresses ==
  [][\A r \in RuleCodes : \A sp \in StmtSpans(unit) :
       (Calls(r, sp) /\ LineOf(sp) \in DOMAIN line_directives) =>
         LET l == LineOf(sp) IN
         /\ r \in DOMAIN line_directives[l].codes =>
              /\ diagnostics' = diagnostics
              /\ ~FileTakes(r) => line_directives'[l].codes[r].used
         /\ DOMAIN line_directives[l].codes = {} => diagnostics' = diagnostics
  ]_vars

\* C2 witness: without a file directive, a diagnostic of code "b" was
\* reported on a line whose directive lists "a" and "b"; it was dropped and
\* "b" alone is marked used
C2_Witness ==
  /\ pc = "rules"
  /\ file_directive = None
  /\ Len(reported[<<"b">>]) = 1 /\ reported[<<"a">>] = <<>>
  /\ LineOf(reported[<<"b">>][1]) \in DOMAIN line_directives
  /\ LET d == line_directives[LineOf(reported[<<"b">>][1])]
     IN /\ DOMAIN d.codes = {<<"a">>, <<"b">>}
        /\ d.codes[<<"b">>].used
        /\ ~d.codes[<<"a">>].used
  /\ diagnostics = <<>>

\* the file directive of the unit took a diagnostic of code c
FileMatched(c) == FileTakes(c) /\ reported[c] # <<>>

\* the line directive of line l took a diagnostic of code c
LineMatched(l, c) ==
  /\ ~FileTakes(c)
  /\ \E i \in 1..Len(reported[c]) : LineOf(reported[c][i]) = l

Count(seq, x) == Cardinality({i \in 1..Len(seq) : seq[i] = x})

\* the comment a directive was parsed from
CommentAt(sp) ==
  CHOOSE it \in {unit.items[i] : i \in 1..Len(unit.items)} : it.span = sp

\* C3: once the rules are done, every code of a file or line directive that
\* no reported diagnostic matched (its flag is still false) has exactly one
\* unused-directive diagnostic at the directive's span, a matched code has
\* none, an ignore-all directive has none, and there are no others.
C3_UnusedCodesReportedOnce ==
  pc = "done" =>
    LET fcodes == IF file_directive = None THEN {}
                  ELSE DOMAIN file_directive[1].codes
        fexp == {LintDiagnostic(file_directive[1].span, BanUnusedIgnore, c) :
                   c \in {x \in fcodes : x \in RuleCodes => ~FileMatched(x)}}
        lexp == UNION {
                  {LintDiagnostic(line_directives[l].span, BanUnusedIgnore, c) :
                     c \in {x \in DOMAIN line_directives[l].codes :
                              x \in RuleCodes => ~LineMatched(l, x)}} :
                  l \in DOMAIN line_directives}
    IN /\ \A x \in fexp \cup lexp : Count(unused, x) = 1
       /\ Len(unused) = Cardinality(fexp \cup lexp)
       /\ \A i \in 1..Len(unused) :
            /\ CommentAt(unused[i].span).kind = "Line"
            /\ Tokens(Remainder(CommentAt(unused[i].span).text,
                 IF file_directive # None
                    /\ file_directive[1].span = unused[i].span
                 THEN FileKeyword ELSE LineKeyword)) # {}
       /\ \A c \in fcodes :
            file_directive[1].codes[c].used <=>
              Count(unused, LintDiagnostic(file_directive[1].span,
                                           BanUnusedIgnore, c)) = 0
       /\ \A l \in DOMAIN line_directives :
            \A c \in DOMAIN line_directives[l].codes :
              line_directives[l].codes[c].used <=>
                Count(unused, LintDiagnostic(line_directives[l].span,
                                             BanUnusedIgnore, c)) = 0

\* C3 witness: the file directive lists "a", only diagnostics of code "b"
\* were reported, and the derivation gave the file directive's "a"
C3_Witness ==
  /\ pc = "done"
  /\ file_directive # None
  /\ DOMAIN file_directive[1].codes = {<<"a">>}
  /\ reported[<<"a">>] = <<>> /\ reported[<<"b">>] # <<>>
  /\ Count(unused, LintDiagnostic(unit.items[1].span, BanUnusedIgnore, <<"a">>)) = 1
  /\ \E l \in DOMAIN line_directives :
       /\ DOMAIN line_directives[l].codes = {}
       /\ \A i \in 1..Len(unused) : unused[i].span # line_directives[l].span

\* the calls of the rules one rule after the other, in the order rs
RECURSIVE Sequential(_, _)
Sequential(ctx, cs) ==
  IF cs = <<>> THEN ctx
  ELSE Sequential(add_diagnostic(ctx, Head(cs).span, Head(cs).code,
                                 MessageOf(Head(cs).code)), Tail(cs))

CallsOf(r) == [i \in 1..Len(reported[r]) |-> [span |-> reported[r][i], code |-> r]]

Range(seq) == {seq[i] : i \in 1..Len(seq)}

\* C8: in every interleaving of the rules' calls, the used flags and the set
\* of kept diagnostics are those of running the rules one after the other
\* (in either order); and two rules whose diagnostics were taken by the same
\* line directive on different codes both have their code marked used.
C8_InterleavingsAgreeWithSequential ==
  pc \in {"rules", "done"} =>
    /\ \A first \in RuleCodes :
         LET second == CHOOSE r \in RuleCodes : r # first
             seq == Sequential(NewContext(unit), CallsOf(first) \o CallsOf(second))
         IN /\ file_directive = seq.file_directive
            /\ line_directives = seq.line_directives
            /\ Range(diagnostics) = Range(seq.diagnostics)
            /\ Len(diagnostics) = Len(seq.diagnostics)
    /\ \A l \in DOMAIN line_directives :
         \A c \in DOMAIN line_directives[l].codes \cap RuleCodes :
           LineMatched(l, c) => line_directives[l].codes[c].used

\* C8 witness: with no file directive, both rules reported on a line whose
\* directive lists both codes, the rule "b" twice; both codes are used and
\* nothing was kept
C8_Witness ==
  /\ file_directive = None
  /\ Len(reported[<<"a">>]) = 1 /\ Len(reported[<<"b">>]) = 2
  /\ reported[<<"b">>][1] = reported[<<"a">>][1]
  /\ reported[<<"b">>][2] = reported[<<"a">>][1]
  /\ LineOf(reported[<<"a">>][1]) \in DOMAIN line_directives
  /\ LET d == line_directives[LineOf(reported[<<"a">>][1])]
     IN /\ DOMAIN d.codes = {<<"a">>, <<"b">>}
        /\ d.codes[<<"a">>].used
        /\ d.codes[<<"b">>].used
  /\ diagnostics = <<>>

-----------------------------------------------------------------------------
(* The NoVar rule (src/rules/no_var.rs).                                    *)
(* A syntax node is [type, kind, span, children]: a variable declaration    *)
(* (type "VarDecl", kind its keyword, children the statements inside its     *)
(* declarators' initialisers, such as the body of a function expression) or  *)
(* any other statement (type "Block", children the statements it holds).     *)

\* the message, without the backquotes around the word var
MESSAGE == "var keyword is not allowed."
CODE == <<"no-var">>

VarDeclKind == {"Var", "Let", "Const"}

\* NoVarVisitor::visit_var_decl: the context afterwards.  The override
\* reports and returns; it does not visit the declaration's children.
visit_var_decl(ctx, var_decl) ==
  IF var_decl.kind = "Var"
  THEN add_diagnostic(ctx, var_decl.span, CODE, MESSAGE)
  ELSE ctx

\* NoVar::lint_program: visit_module or visit_script, either of which visits
\* the items of the body in order
lint_program(prog) ==
  IF prog.kind = "Module" THEN prog.body ELSE prog.body

RECURSIVE Shapes(_)
Shapes(d) ==
  LET kids == IF d = 0 THEN {<<>>}
              ELSE UNION {[1..n -> Shapes(d - 1)] : n \in 0..MaxKids}
  IN {[type |-> "VarDecl", kind |-> k, children |-> c] :
        k \in VarDeclKind, c \in kids}
     \cup {[type |-> "Block", kind |-> "-", children |-> c] : c \in kids}

\* the node of a shape that starts at offset lo and is step characters long
RECURSIVE WithSpans(_, _, _)
WithSpans(shape, lo, step) ==
  [type |-> shape.type,
   kind |-> shape.kind,
   span |-> [lo |-> lo, hi |-> lo + step - 1],
   children |-> [j \in 1..Len(shape.children) |->
                   WithSpans(shape.children[j], lo + j * (step \div 10),
                             step \div 10)]]

\* the nodes of a sequence of statements in source order, nested ones after
\* the statement that holds them
RECURSIVE Preorder(_)
Preorder(nodes) ==
  IF nodes = <<>> THEN <<>>
  ELSE <<Head(nodes)>> \o Preorder(Head(nodes).children) \o Preorder(Tail(nodes))

\* the unit of a program: every node is on line 0, none is a comment
UnitOf(prog) ==
  LET ns == Preorder(prog.body)
  IN [items |-> [i \in 1..Len(ns) |->
                   [kind |-> "Stmt", text |-> <<>>, span |-> ns[i].span,
                    line |-> 0]]]

NoVarInit ==
  /\ pc = "lint_program"
  /\ \E kind \in {"Module", "Script"}, n \in 0..MaxStmts :
       \E shapes \in [1..n -> Shapes(MaxDepth)] :
         program = [kind |-> kind,
                    body |-> [i \in 1..n |-> WithSpans(shapes[i], 100 * i, 100)]]
  /\ todo = <<>>
  /\ unit = UnitOf(program)
  /\ file_directive = None
  /\ line_directives = <<>>
  /\ diagnostics = <<>>
  /\ reported = Idle /\ unused = Idle
  /\ ParseIdle

LintProgram ==
  /\ pc = "lint_program"
  /\ pc' = "visit"
  /\ todo' = lint_program(program)
  /\ UNCHANGED <<program, tableVars, runVars, parseVars>>

\* the visitor reaches a variable declaration
VisitVarDecl ==
  /\ pc = "visit"
  /\ todo # <<>>
  /\ Head(todo).type = "VarDecl"
  /\ SetCtx(visit_var_decl(Ctx, Head(todo)))
  /\ todo' = Tail(todo)
  /\ UNCHANGED <<pc, program, unit, reported, unused, parseVars>>

\* the visitor reaches any other statement: the default visit_children_with
VisitChildren ==
  /\ pc = "visit"
  /\ todo # <<>>
  /\ Head(todo).type # "VarDecl"
  /\ todo' = Head(todo).children \o Tail(todo)
  /\ UNCHANGED <<pc, program, tableVars, runVars, parseVars>>

NoVarNext == LintProgram \/ VisitVarDecl \/ VisitChildren

SpecNoVar == NoVarInit /\ [][NoVarNext]_vars

\* the visit of the program is over
Visited == pc = "visit" /\ todo = <<>>

\* the declarations with the keyword var of the program, in source order
VarDecls ==
  LET IsVar(n) == n.type = "VarDecl" /\ n.kind = "Var"
  IN SelectSeq(Preorder(program.body), IsVar)

\* C9: when NoVar has visited the program, the diagnostics are one per
\* declaration with the keyword var, in source order, each at the
\* declaration's span with the code "no-var" and the fixed message, and
\* none for let or const, for a module and for a script alike.
C9_OneDiagnosticPerVarDecl ==
  Visited =>
    diagnostics = [i \in 1..Len(VarDecls) |->
                     LintDiagnostic(VarDecls[i].span, CODE, MESSAGE)]

=============================================================================
